---- MODULE Spec2Model ----
(***************************************************************************)
(* Channel listing mutations of saleor/graphql/product/mutations/          *)
(* channels.py: ProductChannelListingUpdate and                            *)
(* ProductVaraintChannelListingUpdate, over the two listing tables.        *)
(***************************************************************************)
EXTENDS Integers, Sequences, FiniteSets, TLC

\* ------------------------------------------------------------------------
\* Bounds of the model
\* ------------------------------------------------------------------------
MaxAdd == 2
MaxRemove == 2
MaxEntries == 2

\* ------------------------------------------------------------------------
\* The catalogue the requests work on (read-only for these mutations)
\* ------------------------------------------------------------------------
Products == {"P1", "P2"}
Variants == {"V1", "V2"}
Channels == {"A", "B"}
ChannelIds == {"idA", "idB", "idX"}
NotFound == "NotFound"
NoCategory == "NoCategory"
NoDate == "NoDate"
Dates == {NoDate, "D1"}
Prices == {-1, 0, 10}

\* ProductVariant.product_id: the parent product of a variant
product_id(v) == IF v = "V1" THEN "P1" ELSE "P2"

\* Channel.currency_code
currency_code(c) == IF c = "A" THEN "USD" ELSE "EUR"

\* Global-id resolution of a channel identifier: the channel's primary key,
\* or NotFound for an identifier that names no channel.
Resolve(id) ==
    CASE id = "idA" -> "A"
      [] id = "idB" -> "B"
      [] OTHER -> NotFound

\* ------------------------------------------------------------------------
\* Lists
\* ------------------------------------------------------------------------
Range(s) == {s[i] : i \in DOMAIN s}
Count(s, x) == Cardinality({i \in DOMAIN s : s[i] = x})
SeqsUpTo(S, n) == UNION {[1..k -> S] : k \in 0..n}
\* ------------------------------------------------------------------------
\* Request inputs
\* ------------------------------------------------------------------------
\* ProductChannelListingAddInput
ProductChannelListingAddInput ==
    [channel_id : ChannelIds, is_published : BOOLEAN, publication_date : Dates]

\* ProductChannelListingUpdateInput
ProductChannelListingUpdateInput ==
    [add_channels : SeqsUpTo(ProductChannelListingAddInput, MaxAdd),
     remove_channels : SeqsUpTo(ChannelIds, MaxRemove)]

\* ProductVariantChannelListingAddInput
ProductVariantChannelListingAddInput == [channel_id : ChannelIds, price : Prices]

VariantInput == SeqsUpTo(ProductVariantChannelListingAddInput, MaxEntries)

\* ------------------------------------------------------------------------
\* Errors: ErrorType = DefaultDict[str, List[ValidationError]]
\* ------------------------------------------------------------------------
Fields == {"input", "add_channels", "remove_channels", "is_published",
           "channelId", "price", "channel_id"}
DUPLICATED_INPUT_ITEM == "DUPLICATED_INPUT_ITEM"
PRODUCT_WITHOUT_CATEGORY == "PRODUCT_WITHOUT_CATEGORY"
PRODUCT_NOT_ASSIGNED_TO_CHANNEL == "PRODUCT_NOT_ASSIGNED_TO_CHANNEL"
INVALID == "INVALID"
NOT_FOUND == "NOT_FOUND"

\* ValidationError(msg, code=..., params={"channels": ...}); the channels are
\* kept as the set of identifiers the list names.
ValidationError(code, channels) == [code |-> code, channels |-> channels]

\* defaultdict(list)
NoErrors == [f \in Fields |-> <<>>]

\* errors[field].append(error)
AppendError(errors, field, error) == [errors EXCEPT ![field] = Append(@, error)]

\* `if errors:`
HasErrors(errors) == \E f \in Fields : errors[f] # <<>>

\* every error of the mapping, with its field
AllErrors(errors) ==
    UNION {{[field |-> f, code |-> errors[f][i].code,
             channels |-> errors[f][i].channels] : i \in DOMAIN errors[f]} :
           f \in Fields}

\* ------------------------------------------------------------------------
\* Helpers of graphql/core/utils and graphql/utils
\* ------------------------------------------------------------------------
\* get_duplicates_ids: the items that appear on both lists
get_duplicates_ids(first_list, second_list) ==
    IF first_list # <<>> /\ second_list # <<>>
    THEN Range(first_list) \cap Range(second_list)
    ELSE {}

\* get_duplicated_values: the values that occur more than once
get_duplicated_values(values) ==
    {values[i] : i \in {j \in DOMAIN values : Count(values, values[j]) > 1}}

\* cls.get_nodes_or_error(ids, "channel_id", Channel): the channels in the
\* order of the identifiers, or a raised error when one does not resolve
NodesResolve(ids) == \A i \in DOMAIN ids : Resolve(ids[i]) # NotFound
get_nodes_or_error(ids) == [i \in DOMAIN ids |-> Resolve(ids[i])]
NotFoundError(ids) ==
    AppendError(NoErrors, "channel_id",
        ValidationError(NOT_FOUND, {id \in Range(ids) : Resolve(id) = NotFound}))

\* resolve_global_ids_to_primary_keys(remove_channels_ids, Channel): the
\* primary keys; an identifier that names no channel contributes none
resolve_global_ids_to_primary_keys(ids) ==
    LET F[i \in 0..Len(ids)] ==
            IF i = 0 THEN <<>>
            ELSE IF Resolve(ids[i]) # NotFound
                 THEN Append(F[i - 1], Resolve(ids[i]))
                 ELSE F[i - 1]
    IN  F[Len(ids)]

\* ------------------------------------------------------------------------
\* Tables: sets of rows
\* ------------------------------------------------------------------------
ProductChannelListing ==
    [product : Products, channel : Channels, is_published : BOOLEAN,
     publication_date : Dates]
ProductVariantChannelListing ==
    [variant : Variants, channel : Channels, price_amount : Prices,
     currency : {currency_code(c) : c \in Channels}]

\* the rows of a product, or of a variant, on some channels
PclRowsOn(rows, p, chans) == {row \in rows : row.product = p /\ row.channel \in chans}
VclRowsOn(rows, v, chans) == {row \in rows : row.variant = v /\ row.channel \in chans}

\* variant: a date that is not supplied leaves the stored date
PclUpdated_KeepDate(row, defaults) ==
    [row EXCEPT !.is_published = defaults.is_published,
                !.publication_date = IF defaults.publication_date = NoDate
                                     THEN @ ELSE defaults.publication_date]
\* ProductChannelListing.objects.update_or_create(product=, channel=, defaults=)
PclUpdated(row, defaults) ==
    [row EXCEPT !.is_published = defaults.is_published,
                !.publication_date = defaults.publication_date]
\* variant: get_or_create, an existing row keeps its attributes
PclGetOrCreate(rows, product, channel, defaults) ==
    IF \E row \in rows : row.product = product /\ row.channel = channel
    THEN rows
    ELSE rows \cup {[product |-> product, channel |-> channel,
                     is_published |-> defaults.is_published,
                     publication_date |-> defaults.publication_date]}
\* variant: create without the lookup, a row is inserted in every case
PclAlwaysCreate(rows, product, channel, defaults) ==
    rows \cup {[product |-> product, channel |-> channel,
                is_published |-> defaults.is_published,
                publication_date |-> defaults.publication_date]}
PclUpdateOrCreate(rows, product, channel, defaults) ==
    IF \E row \in rows : row.product = product /\ row.channel = channel
    THEN {IF row.product = product /\ row.channel = channel
          THEN PclUpdated(row, defaults) ELSE row : row \in rows}
    ELSE rows \cup {[product |-> product, channel |-> channel,
                     is_published |-> defaults.is_published,
                     publication_date |-> defaults.publication_date]}

\* variant: the submitted price is added to the stored one
VclUpdated_AddPrice(row, defaults) ==
    [row EXCEPT !.price_amount = @ + defaults.price_amount,
                !.currency = defaults.currency]
\* ProductVariantChannelListing.objects.update_or_create(variant=, channel=, defaults=)
VclUpdated(row, defaults) ==
    [row EXCEPT !.price_amount = defaults.price_amount,
                !.currency = defaults.currency]
VclUpdateOrCreate(rows, variant, channel, defaults) ==
    IF \E row \in rows : row.variant = variant /\ row.channel = channel
    THEN {IF row.variant = variant /\ row.channel = channel
          THEN VclUpdated(row, defaults) ELSE row : row \in rows}
    ELSE rows \cup {[variant |-> variant, channel |-> channel,
                     price_amount |-> defaults.price_amount,
                     currency |-> defaults.currency]}

\* ------------------------------------------------------------------------
\* ProductChannelListingUpdate
\* ------------------------------------------------------------------------
ChannelIdsOf(entries) == [i \in DOMAIN entries |-> entries[i].channel_id]

\* variant: reports only when more than one identifier is in both lists
validate_duplicated_ids_MoreThanOne(add_channels_ids, remove_channels_ids, errors) ==
    LET duplicated_ids == get_duplicates_ids(add_channels_ids, remove_channels_ids)
    IN  IF Cardinality(duplicated_ids) > 1
        THEN AppendError(errors, "input",
                 ValidationError(DUPLICATED_INPUT_ITEM, duplicated_ids))
        ELSE errors

validate_duplicated_ids(add_channels_ids, remove_channels_ids, errors) ==
    LET duplicated_ids == get_duplicates_ids(add_channels_ids, remove_channels_ids)
    IN  IF duplicated_ids # {}
        THEN AppendError(errors, "input",
                 ValidationError(DUPLICATED_INPUT_ITEM, duplicated_ids))
        ELSE errors

validate_duplicated_values(channels_ids, field_name, errors) ==
    LET duplicates == get_duplicated_values(channels_ids)
    IN  IF duplicates # {}
        THEN AppendError(errors, field_name,
                 ValidationError(DUPLICATED_INPUT_ITEM, duplicates))
        ELSE errors

\* cleaned_input = {}: both .get(..., []) reads give the empty list
EmptyCleaned == [add_channels |-> <<>>, remove_channels |-> <<>>]

\* the structural checks of clean_channels (lines 110-112)
ProductStructuralErrors(input) ==
    LET add_channels_ids == ChannelIdsOf(input.add_channels)
        remove_channels_ids == input.remove_channels
    IN  validate_duplicated_values(remove_channels_ids, "remove_channels",
            validate_duplicated_values(add_channels_ids, "add_channels",
                validate_duplicated_ids(add_channels_ids, remove_channels_ids,
                    NoErrors)))

\* variant: clean_channels without the `if errors: return {}`
ProductCleanChannels_NoShortCircuit(input) ==
    LET add_channels_ids == ChannelIdsOf(input.add_channels)
        errors == ProductStructuralErrors(input)
    IN  IF ~NodesResolve(add_channels_ids)
        THEN [cleaned_input |-> EmptyCleaned,
              errors |-> NotFoundError(add_channels_ids), raised |-> TRUE]
        ELSE LET channels_to_add == get_nodes_or_error(add_channels_ids)
             IN  [cleaned_input |->
                     [add_channels |->
                         [i \in DOMAIN input.add_channels |->
                             [channel_id |-> input.add_channels[i].channel_id,
                              is_published |-> input.add_channels[i].is_published,
                              publication_date |->
                                  input.add_channels[i].publication_date,
                              channel |-> channels_to_add[i]]],
                      remove_channels |->
                         resolve_global_ids_to_primary_keys(input.remove_channels)],
                  errors |-> errors, raised |-> FALSE]

\* variant: clean_channels where an unresolvable remove-list identifier fails
\* like one of the add-list
ProductCleanChannels_StrictRemove(input) ==
    LET add_channels_ids == ChannelIdsOf(input.add_channels)
        errors == ProductStructuralErrors(input)
    IN  IF HasErrors(errors)
        THEN [cleaned_input |-> EmptyCleaned, errors |-> errors, raised |-> FALSE]
        ELSE IF ~NodesResolve(add_channels_ids \o input.remove_channels)
        THEN [cleaned_input |-> EmptyCleaned,
              errors |-> NotFoundError(add_channels_ids \o input.remove_channels),
              raised |-> TRUE]
        ELSE LET channels_to_add == get_nodes_or_error(add_channels_ids)
             IN  [cleaned_input |->
                     [add_channels |->
                         [i \in DOMAIN input.add_channels |->
                             [channel_id |-> input.add_channels[i].channel_id,
                              is_published |-> input.add_channels[i].is_published,
                              publication_date |->
                                  input.add_channels[i].publication_date,
                              channel |-> channels_to_add[i]]],
                      remove_channels |->
                         resolve_global_ids_to_primary_keys(input.remove_channels)],
                  errors |-> errors, raised |-> FALSE]

\* clean_channels: [cleaned_input, errors, raised]
ProductCleanChannels(input) ==
    LET add_channels_ids == ChannelIdsOf(input.add_channels)
        errors == ProductStructuralErrors(input)
    IN  IF HasErrors(errors)
        THEN [cleaned_input |-> EmptyCleaned, errors |-> errors, raised |-> FALSE]
        ELSE IF ~NodesResolve(add_channels_ids)
        THEN [cleaned_input |-> EmptyCleaned,
              errors |-> NotFoundError(add_channels_ids), raised |-> TRUE]
        ELSE LET channels_to_add == get_nodes_or_error(add_channels_ids)
             IN  [cleaned_input |->
                     [add_channels |->
                         [i \in DOMAIN input.add_channels |->
                             [channel_id |-> input.add_channels[i].channel_id,
                              is_published |-> input.add_channels[i].is_published,
                              publication_date |->
                                  input.add_channels[i].publication_date,
                              channel |-> channels_to_add[i]]],
                      remove_channels |->
                         resolve_global_ids_to_primary_keys(input.remove_channels)],
                  errors |-> errors, raised |-> FALSE]

\* variant: collects every add-entry, published or not
validate_product_without_category_AnyEntry(cleaned_input, errors) ==
    LET channels == {cleaned_input.add_channels[i].channel_id :
                        i \in DOMAIN cleaned_input.add_channels}
    IN  IF channels # {}
        THEN AppendError(errors, "is_published",
                 ValidationError(PRODUCT_WITHOUT_CATEGORY, channels))
        ELSE errors

validate_product_without_category(cleaned_input, errors) ==
    LET channels_with_published_product_without_category ==
            {cleaned_input.add_channels[i].channel_id :
                i \in {j \in DOMAIN cleaned_input.add_channels :
                          cleaned_input.add_channels[j].is_published = TRUE}}
    IN  IF channels_with_published_product_without_category # {}
        THEN AppendError(errors, "is_published",
                 ValidationError(PRODUCT_WITHOUT_CATEGORY,
                     channels_with_published_product_without_category))
        ELSE errors

\* add_channels: one update_or_create per entry, in list order
add_channels(rows, product, entries) ==
    LET F[i \in 0..Len(entries)] ==
            IF i = 0 THEN rows
            ELSE PclUpdateOrCreate(F[i - 1], product, entries[i].channel,
                     [is_published |-> entries[i].is_published,
                      publication_date |-> entries[i].publication_date])
    IN  F[Len(entries)]

\* variant: the filter without product=product
remove_channels_AnyProduct(rows, product, pks) ==
    {row \in rows : row.channel \notin Range(pks)}

\* remove_channels: filter(product=product, channel_id__in=remove_channels).delete()
remove_channels(rows, product, pks) ==
    {row \in rows : ~(row.product = product /\ row.channel \in Range(pks))}

\* save: add_channels, then remove_channels
ProductSave(rows, product, cleaned_input) ==
    remove_channels(add_channels(rows, product, cleaned_input.add_channels),
                    product, cleaned_input.remove_channels)

\* perform_mutation up to the `if errors: raise`: [cleaned_input, errors]
ProductValidate(cat, input) ==
    LET c == ProductCleanChannels(input)
    IN  IF c.raised THEN [cleaned_input |-> c.cleaned_input, errors |-> c.errors]
        ELSE [cleaned_input |-> c.cleaned_input,
              errors |-> IF cat = NoCategory
                         THEN validate_product_without_category(c.cleaned_input,
                                                                c.errors)
                         ELSE c.errors]

\* ------------------------------------------------------------------------
\* ProductVaraintChannelListingUpdate
\* ------------------------------------------------------------------------
\* clean_channels: [cleaned_input, errors, raised]
VariantCleanChannels(input) ==
    LET add_channels_ids == ChannelIdsOf(input)
        duplicates == get_duplicated_values(add_channels_ids)
    IN  IF duplicates # {}
        THEN [cleaned_input |-> <<>>,
              errors |-> AppendError(NoErrors, "channelId",
                             ValidationError(DUPLICATED_INPUT_ITEM, duplicates)),
              raised |-> FALSE]
        ELSE IF ~NodesResolve(add_channels_ids)
        THEN [cleaned_input |-> <<>>, errors |-> NotFoundError(add_channels_ids),
              raised |-> TRUE]
        ELSE LET channels == get_nodes_or_error(add_channels_ids)
             IN  [cleaned_input |->
                     [i \in DOMAIN input |->
                         [channel_id |-> input[i].channel_id,
                          price |-> input[i].price,
                          channel |-> channels[i]]],
                  errors |-> NoErrors, raised |-> FALSE]

\* variant: the assignment of the parent product is not looked at
validate_product_assigned_to_channel_Unchecked(pclRows, variant, cleaned_input, errors) ==
    errors

validate_product_assigned_to_channel(pclRows, variant, cleaned_input, errors) ==
    LET channel_pks == {cleaned_input[i].channel : i \in DOMAIN cleaned_input}
        channels_assigned_to_product ==
            {row.channel : row \in {r \in pclRows : r.product = product_id(variant)}}
        channels_not_assigned_to_product ==
            channel_pks \ channels_assigned_to_product
    IN  IF channels_not_assigned_to_product # {}
        THEN AppendError(errors, "input",
                 ValidationError(PRODUCT_NOT_ASSIGNED_TO_CHANNEL,
                     {cleaned_input[i].channel_id :
                         i \in {j \in DOMAIN cleaned_input :
                                   cleaned_input[j].channel \in
                                       channels_not_assigned_to_product}}))
        ELSE errors

\* variant: the price check is skipped once the assignment check failed
clean_prices_UnlessErrors(cleaned_input, errors) ==
    LET channels_with_invalid_price ==
            {cleaned_input[i].channel_id :
                i \in {j \in DOMAIN cleaned_input : cleaned_input[j].price < 0}}
    IN  IF channels_with_invalid_price # {} /\ ~HasErrors(errors)
        THEN AppendError(errors, "price",
                 ValidationError(INVALID, channels_with_invalid_price))
        ELSE errors

\* variant: only a price below -1 is rejected
clean_prices_Lenient(cleaned_input, errors) ==
    LET channels_with_invalid_price ==
            {cleaned_input[i].channel_id :
                i \in {j \in DOMAIN cleaned_input : cleaned_input[j].price < -1}}
    IN  IF channels_with_invalid_price # {}
        THEN AppendError(errors, "price",
                 ValidationError(INVALID, channels_with_invalid_price))
        ELSE errors

clean_prices(cleaned_input, errors) ==
    LET channels_with_invalid_price ==
            {cleaned_input[i].channel_id :
                i \in {j \in DOMAIN cleaned_input : cleaned_input[j].price < 0}}
    IN  IF channels_with_invalid_price # {}
        THEN AppendError(errors, "price",
                 ValidationError(INVALID, channels_with_invalid_price))
        ELSE errors

\* variant: the currency of the first entry's channel for every entry
VariantSave_FirstCurrency(rows, variant, cleaned_input) ==
    LET F[i \in 0..Len(cleaned_input)] ==
            IF i = 0 THEN rows
            ELSE VclUpdateOrCreate(F[i - 1], variant, cleaned_input[i].channel,
                     [price_amount |-> cleaned_input[i].price,
                      currency |-> currency_code(cleaned_input[1].channel)])
    IN  F[Len(cleaned_input)]

\* save: one update_or_create per cleaned entry, in list order
VariantSave(rows, variant, cleaned_input) ==
    LET F[i \in 0..Len(cleaned_input)] ==
            IF i = 0 THEN rows
            ELSE VclUpdateOrCreate(F[i - 1], variant, cleaned_input[i].channel,
                     [price_amount |-> cleaned_input[i].price,
                      currency |-> currency_code(cleaned_input[i].channel)])
    IN  F[Len(cleaned_input)]

\* perform_mutation up to the `if errors: raise`: [cleaned_input, errors]
VariantValidate(pclRows, variant, input) ==
    LET c == VariantCleanChannels(input)
    IN  IF c.raised THEN [cleaned_input |-> c.cleaned_input, errors |-> c.errors]
        ELSE [cleaned_input |-> c.cleaned_input,
              errors |-> clean_prices(c.cleaned_input,
                             validate_product_assigned_to_channel(
                                 pclRows, variant, c.cleaned_input, c.errors))]

\* variant: the errors are never raised
PerformNeverRaises(errs) == FALSE

\* perform_mutation: `if errors: raise ValidationError(errors)`
PerformRaises(errs) == HasErrors(errs)

\* ------------------------------------------------------------------------
\* State
\* ------------------------------------------------------------------------
VARIABLES
    pcl,        \* the ProductChannelListing table
    vcl,        \* the ProductVariantChannelListing table
    category,   \* Product.category, per product
    pc,         \* per request slot: where the invocation is
    req,        \* per request slot: the mutation's arguments
    cleaned,    \* per request slot: cleaned_input
    errors,     \* per request slot: the errors mapping of the invocation
    before,     \* per request slot: the two tables as the invocation found them
    tx,         \* per request slot: the open transaction of save
    order       \* the request slots in the order their transactions committed

vars == <<pcl, vcl, category, pc, req, cleaned, errors, before, tx, order>>

Slots == {1, 2}
NoReq == [kind |-> "none"]
NoCleaned == "NoCleaned"
NoTables == [pcl |-> {}, vcl |-> {}]
NoTx == [step |-> 0, ops |-> <<>>]

\* the products and variants the requests of the model are addressed to
TargetProducts == {"P1"}
TargetVariants == {"V1"}

ProductRequest(p, input) == [kind |-> "product", id |-> p, input |-> input]
VariantRequest(v, input) == [kind |-> "variant", id |-> v, input |-> input]

Init ==
    /\ pcl = {[product |-> "P2", channel |-> "A", is_published |-> FALSE,
               publication_date |-> "D1"]}
    /\ vcl = {[variant |-> "V2", channel |-> "A", price_amount |-> 10,
               currency |-> currency_code("A")]}
    /\ category \in {c \in [Products -> {NoCategory, "Cat"}] : c["P2"] = NoCategory}
    /\ pc = [r \in Slots |-> "idle"]
    /\ req = [r \in Slots |-> NoReq]
    /\ cleaned = [r \in Slots |-> NoCleaned]
    /\ errors = [r \in Slots |-> NoErrors]
    /\ before = [r \in Slots |-> NoTables]
    /\ tx = [r \in Slots |-> NoTx]
    /\ order = <<>>

\* ------------------------------------------------------------------------
\* One request at a time: each mutation runs from its arguments to its
\* response before the next one starts
\* ------------------------------------------------------------------------
AllIdle == \A r \in Slots : pc[r] = "idle"

\* ProductChannelListingUpdate.perform_mutation
ProductPerformMutation(r) ==
    /\ AllIdle
    /\ \E p \in TargetProducts, input \in ProductChannelListingUpdateInput :
          LET v == ProductValidate(category[p], input)
          IN  /\ req' = [req EXCEPT ![r] = ProductRequest(p, input)]
              /\ cleaned' = [cleaned EXCEPT ![r] = v.cleaned_input]
              /\ errors' = [errors EXCEPT ![r] = v.errors]
              /\ IF PerformRaises(v.errors)
                 THEN /\ pc' = [pc EXCEPT ![r] = "error"]
                      /\ pcl' = pcl
                 ELSE /\ pc' = [pc EXCEPT ![r] = "done"]
                      /\ pcl' = ProductSave(pcl, p, v.cleaned_input)
    /\ before' = [before EXCEPT ![r] = [pcl |-> pcl, vcl |-> vcl]]
    /\ UNCHANGED <<vcl, category, tx, order>>

\* ProductVaraintChannelListingUpdate.perform_mutation
VariantPerformMutation(r) ==
    /\ AllIdle
    /\ \E variant \in TargetVariants, input \in VariantInput :
          LET v == VariantValidate(pcl, variant, input)
          IN  /\ req' = [req EXCEPT ![r] = VariantRequest(variant, input)]
              /\ cleaned' = [cleaned EXCEPT ![r] = v.cleaned_input]
              /\ errors' = [errors EXCEPT ![r] = v.errors]
              /\ IF PerformRaises(v.errors)
                 THEN /\ pc' = [pc EXCEPT ![r] = "error"]
                      /\ vcl' = vcl
                 ELSE /\ pc' = [pc EXCEPT ![r] = "done"]
                      /\ vcl' = VariantSave(vcl, variant, v.cleaned_input)
    /\ before' = [before EXCEPT ![r] = [pcl |-> pcl, vcl |-> vcl]]
    /\ UNCHANGED <<pcl, category, tx, order>>

\* the response is returned and the invocation ends
Return(r) ==
    /\ pc[r] \in {"done", "error"}
    /\ pc' = [pc EXCEPT ![r] = "idle"]
    /\ req' = [req EXCEPT ![r] = NoReq]
    /\ cleaned' = [cleaned EXCEPT ![r] = NoCleaned]
    /\ errors' = [errors EXCEPT ![r] = NoErrors]
    /\ before' = [before EXCEPT ![r] = NoTables]
    /\ UNCHANGED <<pcl, vcl, category, tx, order>>

Next ==
    \/ ProductPerformMutation(1)
    \/ VariantPerformMutation(1)
    \/ Return(1)

Spec == Init /\ [][Next]_vars

\* ------------------------------------------------------------------------
\* Concurrent requests: each invocation validates, then runs the statements
\* of save inside one transaction.atomic block, and commits or rolls back
\* ------------------------------------------------------------------------
\* the requests of the concurrent runs
ConcAddEntries ==
    {[channel_id |-> id, is_published |-> TRUE, publication_date |-> NoDate] :
        id \in {"idA", "idB"}}
    \cup {[channel_id |-> id, is_published |-> FALSE, publication_date |-> "D1"] :
        id \in {"idA", "idB"}}
ConcVariantEntries == [channel_id : {"idA", "idB"}, price : {0, 10}]
ConcProductInputs ==
    [add_channels : {<<>>} \cup {<<e>> : e \in ConcAddEntries}
                      \cup {<<e, f>> : e \in ConcAddEntries, f \in ConcAddEntries},
     remove_channels : {<<>>} \cup {<<id>> : id \in {"idA", "idB"}}]
ConcVariantInputs ==
    {<<e>> : e \in ConcVariantEntries}
    \cup {<<e, f>> : e \in ConcVariantEntries, f \in ConcVariantEntries}

\* the listings of P1 the concurrent runs start from
ConcListings ==
    {{}, {"A"}, {"A", "B"}}

InitConc ==
    /\ \E listed \in ConcListings :
          pcl = {[product |-> "P2", channel |-> "A", is_published |-> FALSE,
                  publication_date |-> "D1"]}
                \cup {[product |-> "P1", channel |-> c, is_published |-> FALSE,
                       publication_date |-> NoDate] : c \in listed}
    /\ vcl = {[variant |-> "V2", channel |-> "A", price_amount |-> 10,
               currency |-> currency_code("A")]}
    /\ category = [p \in Products |-> IF p = "P1" THEN "Cat" ELSE NoCategory]
    /\ pc = [r \in Slots |-> "idle"]
    /\ req = [r \in Slots |-> NoReq]
    /\ cleaned = [r \in Slots |-> NoCleaned]
    /\ errors = [r \in Slots |-> NoErrors]
    /\ before = [r \in Slots |-> NoTables]
    /\ tx = [r \in Slots |-> NoTx]
    /\ order = <<>>

\* the writes of save, as statements of the transaction
UpsertOp(channel, defaults) ==
    [op |-> "upsert", channel |-> channel, defaults |-> defaults, pks |-> <<>>]
DeleteOp(pks) ==
    [op |-> "delete", channel |-> NotFound, defaults |-> NotFound, pks |-> pks]

\* a statement applied to the table of the request's kind
ApplyOp(table, kind, id, op) ==
    IF op.op = "delete" THEN remove_channels(table, id, op.pks)
    ELSE IF kind = "product"
         THEN PclUpdateOrCreate(table, id, op.channel, op.defaults)
         ELSE VclUpdateOrCreate(table, id, op.channel, op.defaults)

ApplyOps(table, kind, id, ops) ==
    LET F[i \in 0..Len(ops)] ==
            IF i = 0 THEN table ELSE ApplyOp(F[i - 1], kind, id, ops[i])
    IN  F[Len(ops)]

\* variant: no transaction, each statement commits on its own
autocommit(table, written, op) == [table |-> written, pending |-> <<>>]

\* @transaction.atomic(): a statement's write stays pending until the block
\* exits; the table other requests read is not changed by it
transaction_atomic(table, written, op) == [table |-> table, pending |-> <<op>>]

\* row-level write locks: the keys a transaction has written, held until it
\* commits or rolls back
SameTarget(r, other) == req[r].kind = req[other].kind /\ req[r].id = req[other].id
OpKeys(op) == IF op.op = "upsert" THEN {op.channel} ELSE Range(op.pks)
Held(r) ==
    IF pc[r] = "save"
    THEN UNION {OpKeys(tx[r].ops[i]) : i \in DOMAIN tx[r].ops}
    ELSE {}
HeldByOther(r) ==
    UNION {Held(other) : other \in {o \in Slots \ {r} : SameTarget(r, o)}}

\* the table of the request's kind: committed rows, and what the request's
\* own transaction sees (its pending writes applied)
Table(kind) == IF kind = "product" THEN pcl ELSE vcl
View(r) == ApplyOps(Table(req[r].kind), req[r].kind, req[r].id, tx[r].ops)

\* the statements of save: one update_or_create per entry, and for a product
\* request the delete after them
Entries(r) ==
    IF req[r].kind = "product" THEN cleaned[r].add_channels ELSE cleaned[r]
Statements(r) ==
    IF req[r].kind = "product" THEN Len(Entries(r)) + 1 ELSE Len(Entries(r))
EntryDefaults(r, e) ==
    IF req[r].kind = "product"
    THEN [is_published |-> e.is_published, publication_date |-> e.publication_date]
    ELSE [price_amount |-> e.price, currency |-> currency_code(e.channel)]

\* the rows the delete of remove_channels matches: those the transaction sees
MatchedPks(r) ==
    SelectSeq(cleaned[r].remove_channels,
              LAMBDA pk : PclRowsOn(View(r), req[r].id, {pk}) # {})

\* the next statement of save, and the keys it has to lock
NextOp(r) ==
    IF tx[r].step < Len(Entries(r))
    THEN UpsertOp(Entries(r)[tx[r].step + 1].channel,
                  EntryDefaults(r, Entries(r)[tx[r].step + 1]))
    ELSE DeleteOp(MatchedPks(r))
Saving(r) == pc[r] = "save" /\ tx[r].step < Statements(r)
Waits(r) == Saving(r) /\ OpKeys(NextOp(r)) \cap HeldByOther(r) # {}

\* perform_mutation up to the call of save
ConcProductStart(r) ==
    /\ pc[r] = "idle"
    /\ \E p \in TargetProducts, input \in ConcProductInputs :
          LET v == ProductValidate(category[p], input)
          IN  /\ req' = [req EXCEPT ![r] = ProductRequest(p, input)]
              /\ cleaned' = [cleaned EXCEPT ![r] = v.cleaned_input]
              /\ errors' = [errors EXCEPT ![r] = v.errors]
              /\ pc' = [pc EXCEPT ![r] =
                           IF PerformRaises(v.errors) THEN "error" ELSE "save"]
    /\ before' = [before EXCEPT ![r] = [pcl |-> pcl, vcl |-> vcl]]
    /\ tx' = [tx EXCEPT ![r] = NoTx]
    /\ UNCHANGED <<pcl, vcl, category, order>>

ConcVariantStart(r) ==
    /\ pc[r] = "idle"
    /\ \E variant \in TargetVariants, input \in ConcVariantInputs :
          LET v == VariantValidate(pcl, variant, input)
          IN  /\ req' = [req EXCEPT ![r] = VariantRequest(variant, input)]
              /\ cleaned' = [cleaned EXCEPT ![r] = v.cleaned_input]
              /\ errors' = [errors EXCEPT ![r] = v.errors]
              /\ pc' = [pc EXCEPT ![r] =
                           IF PerformRaises(v.errors) THEN "error" ELSE "save"]
    /\ before' = [before EXCEPT ![r] = [pcl |-> pcl, vcl |-> vcl]]
    /\ tx' = [tx EXCEPT ![r] = NoTx]
    /\ UNCHANGED <<pcl, vcl, category, order>>

\* one statement of save: an update_or_create, or the delete
SaveStatement(r) ==
    /\ Saving(r)
    /\ ~Waits(r)
    /\ LET kind == req[r].kind
           op == NextOp(r)
           eff == transaction_atomic(Table(kind),
                                     ApplyOp(Table(kind), kind, req[r].id, op), op)
       IN  /\ tx' = [tx EXCEPT ![r] = [step |-> @.step + 1,
                                       ops |-> @.ops \o eff.pending]]
           /\ IF kind = "product"
              THEN pcl' = eff.table /\ vcl' = vcl
              ELSE vcl' = eff.table /\ pcl' = pcl
    /\ UNCHANGED <<category, pc, req, cleaned, errors, before, order>>

\* variant: the block exits only while no other request is inside save
Commit_WhenAlone(r) ==
    /\ pc[r] = "save"
    /\ tx[r].step = Statements(r)
    /\ \A other \in Slots \ {r} : pc[other] # "save"
    /\ LET kind == req[r].kind
           written == ApplyOps(Table(kind), kind, req[r].id, tx[r].ops)
       IN  IF kind = "product"
           THEN pcl' = written /\ vcl' = vcl
           ELSE vcl' = written /\ pcl' = pcl
    /\ pc' = [pc EXCEPT ![r] = "done"]
    /\ order' = Append(order, r)
    /\ UNCHANGED <<category, req, cleaned, errors, before, tx>>

\* the atomic block exits normally: the pending writes become visible
Commit(r) ==
    /\ pc[r] = "save"
    /\ tx[r].step = Statements(r)
    /\ LET kind == req[r].kind
           written == ApplyOps(Table(kind), kind, req[r].id, tx[r].ops)
       IN  IF kind = "product"
           THEN pcl' = written /\ vcl' = vcl
           ELSE vcl' = written /\ pcl' = pcl
    /\ pc' = [pc EXCEPT ![r] = "done"]
    /\ order' = Append(order, r)
    /\ UNCHANGED <<category, req, cleaned, errors, before, tx>>

\* the storage fails inside the atomic block: the exception leaves the block
\* and the transaction is rolled back
StorageFailure(r) ==
    /\ pc[r] = "save"
    /\ pc' = [pc EXCEPT ![r] = "failed"]
    /\ tx' = [tx EXCEPT ![r].ops = <<>>]
    /\ UNCHANGED <<pcl, vcl, category, req, cleaned, errors, before, order>>

\* two transactions wait for each other's row locks: the storage aborts one
DeadlockAbort(r) ==
    /\ Waits(r)
    /\ \E other \in Slots \ {r} : Waits(other)
    /\ pc' = [pc EXCEPT ![r] = "failed"]
    /\ tx' = [tx EXCEPT ![r].ops = <<>>]
    /\ UNCHANGED <<pcl, vcl, category, req, cleaned, errors, before, order>>

NextConc ==
    \E r \in Slots :
        \/ ConcProductStart(r)
        \/ ConcVariantStart(r)
        \/ SaveStatement(r)
        \/ Commit(r)
        \/ StorageFailure(r)
        \/ DeadlockAbort(r)

SpecConc == InitConc /\ [][NextConc]_vars

\* the same runs under the scheduling the storage gives: a statement whose
\* row locks are free is executed, the atomic block exits after its last
\* statement, and a cycle of lock waits is broken by aborting one transaction
SpecConcFair ==
    /\ SpecConc
    /\ \A r \in Slots :
          /\ WF_vars(SaveStatement(r))
          /\ WF_vars(Commit(r))
          /\ WF_vars(DeadlockAbort(r))

\* ------------------------------------------------------------------------
\* Properties
\* ------------------------------------------------------------------------
Handled(r) == pc[r] \in {"done", "error"}
ProductHandled(r) == Handled(r) /\ req[r].kind = "product"
VariantHandled(r) == Handled(r) /\ req[r].kind = "variant"

\* the channels the identifiers of a list resolve to
ResolvedChannels(ids) == {Resolve(id) : id \in Range(ids)} \ {NotFound}
HasRepeat(ids) == \E i, j \in DOMAIN ids : i # j /\ ids[i] = ids[j]
ErrorsWithCode(r, code) == {e \in AllErrors(errors[r]) : e.code = code}
TablesUnchanged(r) == pcl = before[r].pcl /\ vcl = before[r].vcl

\* C1: after a product request without validation errors the product's rows
\* are the rows before, minus the rows on the removed channels, with one row
\* per add-entry carrying that entry's is_published and publication_date (a
\* row that existed on an added channel is overwritten).
C1_Expected(r) ==
    LET p == req[r].id
        input == req[r].input
        removed == ResolvedChannels(input.remove_channels)
        added == ResolvedChannels(ChannelIdsOf(input.add_channels))
    IN  (before[r].pcl \ PclRowsOn(before[r].pcl, p, removed \cup added))
        \cup {[product |-> p, channel |-> Resolve(e.channel_id),
               is_published |-> e.is_published,
               publication_date |-> e.publication_date] :
                  e \in Range(input.add_channels)}
C1_ReconciledRows ==
    \A r \in Slots :
        (ProductHandled(r) /\ ~HasErrors(errors[r])) => pcl = C1_Expected(r)
C1_Witness ==
    /\ pc[1] = "done" /\ req[1].kind = "product"
    /\ \E e \in Range(req[1].input.add_channels) :
          \E row \in before[1].pcl :
              /\ row.product = req[1].id /\ row.channel = Resolve(e.channel_id)
              /\ row.is_published # e.is_published
              /\ row.publication_date # e.publication_date
    /\ \E id \in Range(req[1].input.remove_channels) :
          PclRowsOn(before[1].pcl, req[1].id, {Resolve(id)}) # {}

\* C2: a request whose clean or validate stage records an error never
\* reaches save, and both tables are as they were before the request.
C2_AllOrNothing ==
    \A r \in Slots :
        (req[r].kind # "none" /\ HasErrors(errors[r]))
            => (pc[r] = "error" /\ TablesUnchanged(r))
C2_Witness ==
    /\ pc[1] = "error" /\ req[1].kind = "variant"
    /\ ErrorsWithCode(1, INVALID) # {}
    /\ \E e \in Range(req[1].input) :
          /\ e.price >= 0
          /\ PclRowsOn(pcl, product_id(req[1].id), {Resolve(e.channel_id)}) # {}
          /\ \A row \in VclRowsOn(vcl, req[1].id, {Resolve(e.channel_id)}) :
                row.price_amount # e.price

\* C3 (as stated): an identifier in both the add-list and the remove-list
\* gives exactly one DUPLICATED_INPUT_ITEM error, naming it, and no write.
InBothLists(r) ==
    Range(ChannelIdsOf(req[r].input.add_channels))
        \cap Range(req[r].input.remove_channels)
C3_Original ==
    \A r \in Slots :
        (ProductHandled(r) /\ InBothLists(r) # {})
            => /\ Cardinality(ErrorsWithCode(r, DUPLICATED_INPUT_ITEM)) = 1
               /\ \A e \in ErrorsWithCode(r, DUPLICATED_INPUT_ITEM) :
                     InBothLists(r) \subseteq e.channels
               /\ TablesUnchanged(r)

\* C3 (amended): an identifier in both lists gives exactly one
\* DUPLICATED_INPUT_ITEM error under "input", naming exactly the identifiers
\* that are in both lists; every other error of the response is a
\* DUPLICATED_INPUT_ITEM error under "add_channels" or "remove_channels" for
\* a list that repeats an identifier; nothing is written.
C3_DuplicatedAcrossLists ==
    \A r \in Slots :
        (ProductHandled(r) /\ InBothLists(r) # {})
            => /\ pc[r] = "error"
               /\ {e \in AllErrors(errors[r]) : e.field = "input"}
                     = {[field |-> "input", code |-> DUPLICATED_INPUT_ITEM,
                         channels |-> InBothLists(r)]}
               /\ \A e \in AllErrors(errors[r]) :
                     /\ e.code = DUPLICATED_INPUT_ITEM
                     /\ e.field \in {"input", "add_channels", "remove_channels"}
                     /\ e.field = "add_channels"
                           => HasRepeat(ChannelIdsOf(req[r].input.add_channels))
                     /\ e.field = "remove_channels"
                           => HasRepeat(req[r].input.remove_channels)
               /\ TablesUnchanged(r)
C3_Witness ==
    /\ pc[1] = "error" /\ req[1].kind = "product"
    /\ InBothLists(1) # {}
    /\ Cardinality(ErrorsWithCode(1, DUPLICATED_INPUT_ITEM)) = 2
    /\ \E row \in before[1].pcl :
          row.product = req[1].id /\ Resolve("idA") = row.channel
          /\ "idA" \in InBothLists(1)

\* C4 (as stated): on a product without category every request with an
\* add-entry that has is_published = true is rejected with one
\* PRODUCT_WITHOUT_CATEGORY error naming exactly the published entries, and
\* nothing is written.
PublishedIds(r) ==
    {e.channel_id : e \in {x \in Range(req[r].input.add_channels) : x.is_published}}
C4_Rejected(r) ==
    /\ pc[r] = "error"
    /\ ErrorsWithCode(r, PRODUCT_WITHOUT_CATEGORY)
          = {[field |-> "is_published", code |-> PRODUCT_WITHOUT_CATEGORY,
              channels |-> PublishedIds(r)]}
    /\ Len(errors[r]["is_published"]) = 1
    /\ TablesUnchanged(r)
C4_Original ==
    \A r \in Slots :
        (ProductHandled(r) /\ category[req[r].id] = NoCategory
            /\ PublishedIds(r) # {})
            => C4_Rejected(r)

\* C4 (amended): the same, for the requests that pass the clean stage: no
\* identifier in both lists or repeated within a list, and every add-list
\* identifier resolves to a channel.
PassesProductClean(r) ==
    /\ InBothLists(r) = {}
    /\ ~HasRepeat(ChannelIdsOf(req[r].input.add_channels))
    /\ ~HasRepeat(req[r].input.remove_channels)
    /\ \A e \in Range(req[r].input.add_channels) : Resolve(e.channel_id) # NotFound
C4_PublishWithoutCategory ==
    \A r \in Slots :
        (ProductHandled(r) /\ category[req[r].id] = NoCategory
            /\ PublishedIds(r) # {} /\ PassesProductClean(r))
            => C4_Rejected(r)
C4_Witness ==
    /\ pc[1] = "error" /\ req[1].kind = "product"
    /\ category[req[1].id] = NoCategory
    /\ PassesProductClean(1)
    /\ \E e, f \in Range(req[1].input.add_channels) :
          /\ e.is_published /\ ~f.is_published
          /\ PclRowsOn(pcl, req[1].id, {Resolve(f.channel_id)}) = {}
          /\ PclRowsOn(pcl, req[1].id, {Resolve(e.channel_id)}) # {}

\* C5 (as stated): a variant's row on a channel exists only if the parent
\* product has a row on that channel.
C5_Original ==
    \A row \in vcl :
        PclRowsOn(pcl, product_id(row.variant), {row.channel}) # {}

\* C6: in the variant manager the channel-assignment check and the price
\* check are independent. Of the entries of a request that passes the clean
\* stage, those on a channel without a listing of the parent product are
\* named in one PRODUCT_NOT_ASSIGNED_TO_CHANNEL error and those with a
\* negative price in one INVALID error; an entry failing both is in both.
PassesVariantClean(r) ==
    /\ ~HasRepeat(ChannelIdsOf(req[r].input))
    /\ \A e \in Range(req[r].input) : Resolve(e.channel_id) # NotFound
UnassignedIds(r) ==
    {e.channel_id : e \in {x \in Range(req[r].input) :
        PclRowsOn(before[r].pcl, product_id(req[r].id), {Resolve(x.channel_id)}) = {}}}
NegativePriceIds(r) ==
    {e.channel_id : e \in {x \in Range(req[r].input) : x.price < 0}}
C6_IndependentChecks ==
    \A r \in Slots :
        (VariantHandled(r) /\ PassesVariantClean(r))
            => /\ ErrorsWithCode(r, PRODUCT_NOT_ASSIGNED_TO_CHANNEL)
                    = IF UnassignedIds(r) = {} THEN {}
                      ELSE {[field |-> "input",
                             code |-> PRODUCT_NOT_ASSIGNED_TO_CHANNEL,
                             channels |-> UnassignedIds(r)]}
               /\ Len(errors[r]["input"]) = IF UnassignedIds(r) = {} THEN 0 ELSE 1
               /\ ErrorsWithCode(r, INVALID)
                    = IF NegativePriceIds(r) = {} THEN {}
                      ELSE {[field |-> "price", code |-> INVALID,
                             channels |-> NegativePriceIds(r)]}
               /\ Len(errors[r]["price"]) = IF NegativePriceIds(r) = {} THEN 0 ELSE 1
C6_Witness ==
    /\ pc[1] = "error" /\ req[1].kind = "variant"
    /\ PassesVariantClean(1)
    /\ UnassignedIds(1) \cap NegativePriceIds(1) # {}
    /\ \E e \in ErrorsWithCode(1, PRODUCT_NOT_ASSIGNED_TO_CHANNEL) :
       \E f \in ErrorsWithCode(1, INVALID) :
          e.channels \cap f.channels # {} /\ e.channels # f.channels

\* C7: every ProductVariantChannelListing row carries the currency code of
\* its channel, whether the upsert created the row or overwrote it.
C7_CurrencyOfChannel ==
    \A row \in vcl : row.currency = currency_code(row.channel)
C7_Witness ==
    /\ pc[1] = "done" /\ req[1].kind = "variant"
    /\ \E e, f \in Range(req[1].input) :
          /\ VclRowsOn(before[1].vcl, req[1].id, {Resolve(e.channel_id)}) = {}
          /\ \E row \in VclRowsOn(before[1].vcl, req[1].id, {Resolve(f.channel_id)}) :
                row.price_amount # f.price
          /\ currency_code(Resolve(e.channel_id)) # currency_code(Resolve(f.channel_id))
    /\ \A e \in Range(req[1].input) :
          \E row \in vcl :
              /\ row.variant = req[1].id /\ row.channel = Resolve(e.channel_id)
              /\ row.price_amount = e.price

\* C10: removal is idempotent. A remove-only request that repeats no
\* identifier produces no error, whether or not the channels are listed; it
\* deletes the product's rows on the named channels and no other row, so
\* when none of them is listed (as after a first application) nothing
\* changes.
RemoveOnly(r) ==
    /\ ProductHandled(r)
    /\ req[r].input.add_channels = <<>>
    /\ ~HasRepeat(req[r].input.remove_channels)
C10_RemovalIdempotent ==
    \A r \in Slots :
        RemoveOnly(r)
            => LET p == req[r].id
                   removed == ResolvedChannels(req[r].input.remove_channels)
               IN  /\ pc[r] = "done"
                   /\ ~HasErrors(errors[r])
                   /\ pcl = before[r].pcl \ PclRowsOn(before[r].pcl, p, removed)
                   /\ vcl = before[r].vcl
                   /\ PclRowsOn(before[r].pcl, p, removed) = {} => pcl = before[r].pcl
                   /\ ProductSave(pcl, p, cleaned[r]) = pcl
C10_Witness ==
    /\ RemoveOnly(1)
    /\ \E id \in Range(req[1].input.remove_channels) :
          /\ Resolve(id) # NotFound
          /\ PclRowsOn(before[1].pcl, req[1].id, {Resolve(id)}) = {}
    /\ PclRowsOn(pcl, req[1].id, Channels) # {}
    /\ pcl = before[1].pcl

\* C8: the writes of one save are atomic. The tables change only when a
\* request that has run every statement of its save commits, and then all
\* its upserts and deletes are in the table at once; a request whose save
\* failed part-way leaves no row change, so while nothing has committed the
\* tables are as that request found them.
KindRowsOn(kind, rows, id, chans) ==
    IF kind = "product" THEN PclRowsOn(rows, id, chans)
    ELSE VclRowsOn(rows, id, chans)
EntryRow(r, e) ==
    IF req[r].kind = "product"
    THEN [product |-> req[r].id, channel |-> Resolve(e.channel_id),
          is_published |-> e.is_published, publication_date |-> e.publication_date]
    ELSE [variant |-> req[r].id, channel |-> Resolve(e.channel_id),
          price_amount |-> e.price, currency |-> currency_code(Resolve(e.channel_id))]
DeletedKeys(r) ==
    UNION {Range(tx[r].ops[i].pks) : i \in DOMAIN tx[r].ops}
AllWritesVisible(r) ==
    /\ \A e \in Range(Entries(r)) : EntryRow(r, e) \in Table(req[r].kind)
    /\ KindRowsOn(req[r].kind, Table(req[r].kind), req[r].id, DeletedKeys(r)) = {}
C8_OnlyWholeCommits ==
    (pcl' # pcl \/ vcl' # vcl)
        => \E r \in Slots :
              /\ pc[r] = "save" /\ pc'[r] = "done"
              /\ tx[r].step = Statements(r)
              /\ AllWritesVisible(r)'
C8_FailedLeavesNothing ==
    \A r \in Slots :
        (pc[r] = "failed" /\ order = <<>>) => TablesUnchanged(r)
C8_AtomicSave == [][C8_OnlyWholeCommits]_vars /\ []C8_FailedLeavesNothing
C8_Witness ==
    /\ pc[1] = "failed" /\ req[1].kind = "product"
    /\ tx[1].step = 1 /\ Statements(1) = 3
    /\ PclRowsOn(pcl, req[1].id, {Entries(1)[1].channel}) = {}
    /\ pc[2] = "save" /\ tx[2].step = 1 /\ SameTarget(1, 2)
    /\ before[2] = before[1]

\* C9 (as stated): two error-free requests on the same product, or on the
\* same variant, that both commit leave the rows of one of the two serial
\* orders.
BothCommitted == pc[1] = "done" /\ pc[2] = "done" /\ SameTarget(1, 2)
SaveOf(rows, r) ==
    IF req[r].kind = "product" THEN ProductSave(rows, req[r].id, cleaned[r])
    ELSE VariantSave(rows, req[r].id, cleaned[r])
FirstFound == IF req[1].kind = "product" THEN before[order[1]].pcl
              ELSE before[order[1]].vcl
Serial(a, b) == SaveOf(SaveOf(FirstFound, a), b)
C9_Original ==
    BothCommitted => Table(req[1].kind) \in {Serial(1, 2), Serial(2, 1)}

\* C9 (amended): for two such requests every (entity, channel) key on its
\* own ends as in one of the two serial orders, and a key both requests
\* upsert ends with the attributes of the request that committed last; the
\* whole set of rows need not be that of either serial order.
UpsertedKeys(r) == {Resolve(e.channel_id) : e \in Range(Entries(r))}
C9_PerKeySerial ==
    BothCommitted =>
        \A c \in Channels :
            LET final == KindRowsOn(req[1].kind, Table(req[1].kind), req[1].id, {c})
                ab == KindRowsOn(req[1].kind, Serial(1, 2), req[1].id, {c})
                ba == KindRowsOn(req[1].kind, Serial(2, 1), req[1].id, {c})
                inOrder == KindRowsOn(req[1].kind, Serial(order[1], order[2]),
                                      req[1].id, {c})
            IN  /\ final \in {ab, ba}
                /\ c \in UpsertedKeys(1) \cap UpsertedKeys(2) => final = inOrder
C9_Witness ==
    /\ BothCommitted
    /\ order = <<2, 1>>
    /\ before[1] = before[2]
    /\ \E c \in UpsertedKeys(1) \cap UpsertedKeys(2) :
          KindRowsOn(req[1].kind, Serial(1, 2), req[1].id, {c})
              # KindRowsOn(req[1].kind, Serial(2, 1), req[1].id, {c})
    /\ tx[1].step >= 2 /\ tx[2].step >= 2

\* C11: at most one ProductChannelListing row per (product, channel) and at
\* most one ProductVariantChannelListing row per (variant, channel), in every
\* state of every interleaving of requests; an upsert on a listed channel
\* overwrites the row it finds.
C11_OneRowPerKey ==
    /\ \A x, y \in pcl : (x.product = y.product /\ x.channel = y.channel) => x = y
    /\ \A x, y \in vcl : (x.variant = y.variant /\ x.channel = y.channel) => x = y
C11_Witness ==
    /\ BothCommitted /\ req[1].kind = "product"
    /\ before[1] = before[2]
    /\ \E e \in Range(Entries(1)), f \in Range(Entries(2)) :
          /\ e.channel = f.channel
          /\ e.is_published # f.is_published
          /\ \E row \in before[1].pcl :
                /\ row.product = req[1].id /\ row.channel = e.channel
                /\ row \notin pcl
          /\ Cardinality(PclRowsOn(pcl, req[1].id, {e.channel})) = 1

\* C12: the clean stage short-circuits in both managers. A request with a
\* structural duplicate (an identifier in both lists, repeated in the
\* add-list, repeated in the remove-list, or repeated in the variant's
\* entry list) is rejected with DUPLICATED_INPUT_ITEM errors only: no
\* identifier is resolved, so the cleaned input is empty and an
\* unresolvable identifier raises no NOT_FOUND, and no validate-stage error
\* is added. A product request whose only duplicate is one identifier
\* repeated in the add-list gets exactly one error, naming it.
StructuralDuplicate(r) ==
    IF req[r].kind = "product"
    THEN \/ InBothLists(r) # {}
         \/ HasRepeat(ChannelIdsOf(req[r].input.add_channels))
         \/ HasRepeat(req[r].input.remove_channels)
    ELSE HasRepeat(ChannelIdsOf(req[r].input))
C12_ShortCircuit ==
    \A r \in Slots :
        (Handled(r) /\ StructuralDuplicate(r))
            => /\ pc[r] = "error"
               /\ \A e \in AllErrors(errors[r]) : e.code = DUPLICATED_INPUT_ITEM
               /\ cleaned[r] = IF req[r].kind = "product" THEN EmptyCleaned ELSE <<>>
               /\ TablesUnchanged(r)
               /\ (req[r].kind = "product" /\ InBothLists(r) = {}
                      /\ ~HasRepeat(req[r].input.remove_channels))
                     => /\ AllErrors(errors[r])
                             = {[field |-> "add_channels",
                                 code |-> DUPLICATED_INPUT_ITEM,
                                 channels |-> get_duplicated_values(
                                     ChannelIdsOf(req[r].input.add_channels))]}
                        /\ Len(errors[r]["add_channels"]) = 1
C12_Witness ==
    /\ pc[1] = "error" /\ req[1].kind = "product"
    /\ category[req[1].id] = NoCategory
    /\ req[1].input.remove_channels = <<>>
    /\ Len(req[1].input.add_channels) = 2
    /\ req[1].input.add_channels[1].channel_id = "idA"
    /\ req[1].input.add_channels[2].channel_id = "idA"
    /\ req[1].input.add_channels[1].is_published
    /\ ~req[1].input.add_channels[2].is_published
    /\ AllErrors(errors[1])
          = {[field |-> "add_channels", code |-> DUPLICATED_INPUT_ITEM,
              channels |-> {"idA"}]}

\* C13 (as stated): errors are accumulated. A request without structural
\* duplicate in which one add-list identifier does not resolve and another
\* entry breaks a validate-stage rule (published on a product without
\* category; negative price or unassigned channel for a variant) reports the
\* NOT_FOUND error and the validate-stage error together.
UnresolvedEntries(entries) == {e \in Range(entries) : Resolve(e.channel_id) = NotFound}
ResolvedEntries(entries) == {e \in Range(entries) : Resolve(e.channel_id) # NotFound}
C13_Original ==
    \A r \in Slots :
        (Handled(r) /\ ~StructuralDuplicate(r))
            => IF req[r].kind = "product"
               THEN (/\ UnresolvedEntries(req[r].input.add_channels) # {}
                     /\ category[req[r].id] = NoCategory
                     /\ \E f \in ResolvedEntries(req[r].input.add_channels) :
                           f.is_published)
                       => /\ ErrorsWithCode(r, NOT_FOUND) # {}
                          /\ ErrorsWithCode(r, PRODUCT_WITHOUT_CATEGORY) # {}
               ELSE /\ (/\ UnresolvedEntries(req[r].input) # {}
                        /\ \E f \in ResolvedEntries(req[r].input) : f.price < 0)
                          => /\ ErrorsWithCode(r, NOT_FOUND) # {}
                             /\ ErrorsWithCode(r, INVALID) # {}
                    /\ (/\ UnresolvedEntries(req[r].input) # {}
                        /\ \E f \in ResolvedEntries(req[r].input) :
                              PclRowsOn(before[r].pcl, product_id(req[r].id),
                                        {Resolve(f.channel_id)}) = {})
                          => /\ ErrorsWithCode(r, NOT_FOUND) # {}
                             /\ ErrorsWithCode(r, PRODUCT_NOT_ASSIGNED_TO_CHANNEL) # {}

\* C14: the variant manager checks the channel assignment of the parent
\* product once, before save, against the rows it reads then; a request that
\* has entered save is never rejected afterwards and its commit writes a row
\* for every entry whatever the ProductChannelListing table holds by then.
\* So a product request that removes a channel and commits between the
\* check and the save leaves a variant row on a channel that the parent
\* product is no longer listed on.
C14_CheckedBeforeSave ==
    \A r \in Slots :
        (req[r].kind = "variant" /\ pc[r] \in {"save", "done", "failed"})
            => UnassignedIds(r) = {}
C14_SaveWritesUnchecked ==
    \A r \in Slots :
        (req[r].kind = "variant" /\ pc[r] = "save")
            => /\ pc'[r] # "error"
               /\ errors'[r] = errors[r]
               /\ pc'[r] = "done"
                     => \A e \in Range(Entries(r)) : EntryRow(r, e) \in vcl'
C14_NoRevalidation == [][C14_SaveWritesUnchecked]_vars /\ []C14_CheckedBeforeSave
C14_Witness ==
    /\ pc[1] = "done" /\ req[1].kind = "variant"
    /\ pc[2] = "done" /\ req[2].kind = "product"
    /\ order = <<2, 1>>
    /\ before[1].pcl = before[2].pcl
    /\ \E e \in Range(Entries(1)) :
          /\ PclRowsOn(before[1].pcl, product_id(req[1].id), {e.channel}) # {}
          /\ e.channel \in Range(cleaned[2].remove_channels)
          /\ PclRowsOn(pcl, product_id(req[1].id), {e.channel}) = {}
          /\ EntryRow(1, e) \in vcl

C16_NonNegativePrices ==
    /\ \A row \in vcl : row.price_amount >= 0
    /\ \A r \in Slots :
          VariantHandled(r)
              => /\ NegativePriceIds(r) # {}
                      => (pc[r] = "error" /\ TablesUnchanged(r))
                 /\ NegativePriceIds(r) = {} => ErrorsWithCode(r, INVALID) = {}
                 /\ pc[r] = "done"
                      => \A e \in Range(req[r].input) :
                            \A row \in VclRowsOn(vcl, req[r].id,
                                                 {Resolve(e.channel_id)}) :
                                row.price_amount = e.price
                 /\ pc[r] = "done"
                      => \A e \in Range(req[r].input) :
                            VclRowsOn(vcl, req[r].id, {Resolve(e.channel_id)}) # {}
C16_Witness ==
    /\ pc[1] = "done" /\ req[1].kind = "variant"
    /\ \E e \in Range(req[1].input) :
          /\ e.price = 0
          /\ \E row \in VclRowsOn(before[1].vcl, req[1].id, {Resolve(e.channel_id)}) :
                row.price_amount = 10
          /\ \E row \in VclRowsOn(vcl, req[1].id, {Resolve(e.channel_id)}) :
                row.price_amount = 0

\* C17: resolution is tolerant on the remove path and strict on the add
\* path. A product request that is otherwise valid and has an identifier in
\* its remove-list that names no channel succeeds without error, and its
\* other adds and removes are applied; no NOT_FOUND error ever names an
\* identifier that is only in the remove-list. A request with such an
\* identifier in its add-list is rejected and writes nothing.
UnresolvedRemoves(r) ==
    {id \in Range(req[r].input.remove_channels) : Resolve(id) = NotFound}
C17_TolerantRemove ==
    \A r \in Slots :
        ProductHandled(r)
            => /\ (/\ UnresolvedRemoves(r) # {}
                   /\ PassesProductClean(r)
                   /\ (category[req[r].id] # NoCategory \/ PublishedIds(r) = {}))
                     => /\ pc[r] = "done"
                        /\ ~HasErrors(errors[r])
                        /\ pcl = C1_Expected(r)
               /\ \A e \in ErrorsWithCode(r, NOT_FOUND) :
                     e.channels \subseteq
                         {x.channel_id : x \in UnresolvedEntries(req[r].input.add_channels)}
               /\ UnresolvedEntries(req[r].input.add_channels) # {}
                     => (pc[r] = "error" /\ TablesUnchanged(r))
C17_Witness ==
    /\ pc[1] = "done" /\ req[1].kind = "product"
    /\ UnresolvedRemoves(1) # {}
    /\ \E id \in Range(req[1].input.remove_channels) :
          /\ PclRowsOn(before[1].pcl, req[1].id, {Resolve(id)}) # {}
          /\ PclRowsOn(pcl, req[1].id, {Resolve(id)}) = {}
    /\ \E e \in Range(req[1].input.add_channels) :
          /\ PclRowsOn(before[1].pcl, req[1].id, {Resolve(e.channel_id)}) = {}
          /\ PclRowsOn(pcl, req[1].id, {Resolve(e.channel_id)}) # {}

\* C18: frame. A successful product request changes only
\* ProductChannelListing rows of its product on the channels its add-list
\* and remove-list name, and no ProductVariantChannelListing row; a
\* successful variant request changes only ProductVariantChannelListing rows
\* of its variant on the channels of its entries, and no
\* ProductChannelListing row.
Changed(old, new) == (old \ new) \cup (new \ old)
NamedChannels(r) ==
    IF req[r].kind = "product"
    THEN ResolvedChannels(ChannelIdsOf(req[r].input.add_channels))
            \cup ResolvedChannels(req[r].input.remove_channels)
    ELSE ResolvedChannels(ChannelIdsOf(req[r].input))
C18_Frame ==
    \A r \in Slots :
        (Handled(r) /\ pc[r] = "done")
            => IF req[r].kind = "product"
               THEN /\ vcl = before[r].vcl
                    /\ \A row \in Changed(before[r].pcl, pcl) :
                          row.product = req[r].id /\ row.channel \in NamedChannels(r)
               ELSE /\ pcl = before[r].pcl
                    /\ \A row \in Changed(before[r].vcl, vcl) :
                          row.variant = req[r].id /\ row.channel \in NamedChannels(r)
C18_Witness ==
    /\ pc[1] = "done" /\ req[1].kind = "product"
    /\ req[1].input.add_channels # <<>> /\ req[1].input.remove_channels # <<>>
    /\ Changed(before[1].pcl, pcl) # {}
    /\ \E row \in pcl : row.product # req[1].id /\ row.channel \in NamedChannels(1)
    /\ \E row \in vcl : product_id(row.variant) = req[1].id
                           /\ row.channel \in NamedChannels(1)
    /\ \E row \in pcl : row.product = req[1].id /\ row.channel \notin NamedChannels(1)

\* C19: an add-entry without publication date stores a null
\* publication_date: after a successful product request the product's row
\* on the channel of such an entry has no date, also when the row existed
\* with a date before.
C19_DateDefaultsToNull ==
    \A r \in Slots :
        (ProductHandled(r) /\ pc[r] = "done")
            => \A e \in Range(req[r].input.add_channels) :
                  e.publication_date = NoDate
                      => /\ PclRowsOn(pcl, req[r].id, {Resolve(e.channel_id)}) # {}
                         /\ \A row \in PclRowsOn(pcl, req[r].id,
                                                  {Resolve(e.channel_id)}) :
                               row.publication_date = NoDate
C19_Witness ==
    /\ pc[1] = "done" /\ req[1].kind = "product"
    /\ \E e \in Range(req[1].input.add_channels) :
          /\ e.publication_date = NoDate
          /\ \E row \in PclRowsOn(before[1].pcl, req[1].id, {Resolve(e.channel_id)}) :
                row.publication_date = "D1" /\ row.is_published = e.is_published
          /\ \E row \in PclRowsOn(pcl, req[1].id, {Resolve(e.channel_id)}) :
                row.publication_date = NoDate

\* C20: re-submitting is idempotent. In the state a successful request
\* leaves, the identical request passes validation again and its save
\* changes no row.
C20_Resubmit ==
    \A r \in Slots :
        (Handled(r) /\ pc[r] = "done")
            => IF req[r].kind = "product"
               THEN LET v == ProductValidate(category[req[r].id], req[r].input)
                    IN  /\ ~PerformRaises(v.errors)
                        /\ ProductSave(pcl, req[r].id, v.cleaned_input) = pcl
               ELSE LET v == VariantValidate(pcl, req[r].id, req[r].input)
                    IN  /\ ~PerformRaises(v.errors)
                        /\ VariantSave(vcl, req[r].id, v.cleaned_input) = vcl
C20_Witness ==
    /\ pc[1] = "done" /\ req[1].kind = "variant"
    /\ Len(req[1].input) = 2
    /\ \E row \in before[1].vcl : row.variant = req[1].id /\ row \notin vcl
    /\ Cardinality(Changed(before[1].vcl, vcl)) = 3
    /\ VariantSave(vcl, req[1].id, cleaned[1]) = vcl

====
